---- MODULE Spec2Model ----
(***************************************************************************)
(* A model of the real-time collaboration core of the page-builder server: *)
(* the Page documents with their version and bounded history, the access   *)
(* check, the socket handlers of socket/socketHandlers.js (each split at   *)
(* its awaits) and the REST block updates of routes/pages.js.              *)
(*                                                                         *)
(* Page.findById returns a private copy of the stored document;            *)
(* page.save() writes the paths the handler assigned on that copy.  There  *)
(* is no lock around a handler's load-modify-save, so handlers of          *)
(* different events interleave at their awaits.                            *)
(***************************************************************************)
EXTENDS Integers, Sequences, FiniteSets, TLC

\* ------------------------------------------------------------- bounds
\* events (socket events and REST requests) the environment sends in a run of
\* the document events, of the room events, and of one editor's edits and undos
MaxEvents == 3
MaxRoomEvents == 3
MaxUndoEvents == 4
\* handlers that may be suspended at an await at the same time
MaxInFlight == 2
\* distinct block lists a client may send (0 is the empty list of a new page)
MaxBlockList == 2

\* ------------------------------------------------- program constants
\* "Keep only last 10 versions"
HistoryLimit == 10
\* version: { type: Number, default: 1 }
DefaultVersion == 1

\* ------------------------------------------------------- the universe
Users == {"u1", "u2", "u3"}
Conns == {"c1", "c2", "c3"}
Pages == {"p1", "p2"}
\* an id no document has: Page.findById returns null for it
MissingPage == "p0"
PageIds == Pages \cup {MissingPage}
\* the ids the block and history events name: the edited document p1 (p2 is a
\* document none of the users may edit) and the missing one
EditPageIds == {"p1", MissingPage}
Roles == {"viewer", "editor", "admin"}
BlockLists == 1..MaxBlockList
Titles == {"t1", "t2"}
Slots == 1..MaxInFlight
\* socket.currentPageId before the first join-page
NoPage == "none"

\* who the connections authenticated as: one connection per user, or two
\* connections of u1 and one of u2
OneEach == [c \in Conns |-> CASE c = "c1" -> "u1" [] c = "c2" -> "u2" [] OTHER -> "u3"]
TwoOfOne == [c \in Conns |-> CASE c = "c2" -> "u2" [] OTHER -> "u1"]

VARIABLES
  pages,          \* the stored documents: [Pages -> document]
  tasks,          \* the handlers suspended at an await: [Slots -> task]
  currentPageId,  \* socket.currentPageId of each connection
  rooms,          \* the document rooms each connection is subscribed to
  status,         \* "connected" or "disconnected": the socket of each connection
  activeUsers,    \* the presence registry: [Pages -> set of users]
  emitted,        \* the events sent by the last step, in order
  last,           \* what the last step was
  writeLog,       \* per page, the last two saves that changed blocks or version
  eventsLeft,     \* events the environment may still send
  acc,            \* one evaluation of hasAccess: its inputs and its result
  socketUserId,   \* socket.userId of each connection, set when it authenticated
  ub              \* the update-blocks saves on p1: p1's version when the run started, how
                  \* many saves, and whether one wrote over a document changed since its load

vars == <<pages, tasks, currentPageId, rooms, status, activeUsers, emitted,
          last, writeLog, eventsLeft, acc, socketUserId, ub>>

\* ---------------------------------------------------------- documents
roleHierarchy == [viewer |-> 1, editor |-> 2, admin |-> 3]

\* this.collaborators.find(collab => collab.user === userId): the index of
\* the first entry of the user, 0 when there is none
FindCollaborator(collaborators, userId) ==
  LET hits == {i \in 1..Len(collaborators) : collaborators[i].user = userId}
  IN IF hits = {} THEN 0 ELSE CHOOSE i \in hits : \A j \in hits : i <= j

\* a hasAccess that looks at the collaborator list before the owner
hasAccessListFirst(page, userId, requiredRole) ==
  LET i == FindCollaborator(page.collaborators, userId)
  IN IF i # 0
     THEN roleHierarchy[page.collaborators[i].role] >= roleHierarchy[requiredRole]
     ELSE page.owner = userId

\* a hasAccess that asks for a rank above the required one
hasAccessStrictlyAbove(page, userId, requiredRole) ==
  IF page.owner = userId THEN TRUE
  ELSE LET i == FindCollaborator(page.collaborators, userId)
       IN IF i = 0 THEN FALSE
          ELSE roleHierarchy[page.collaborators[i].role] > roleHierarchy[requiredRole]

\* a hasAccess that passes every user with a collaborator entry
hasAccessAnyEntry(page, userId, requiredRole) ==
  IF page.owner = userId THEN TRUE
  ELSE FindCollaborator(page.collaborators, userId) # 0

\* pageSchema.methods.hasAccess
hasAccess(page, userId, requiredRole) ==
  IF page.owner = userId THEN TRUE
  ELSE LET i == FindCollaborator(page.collaborators, userId)
       IN IF i = 0 THEN FALSE
          ELSE roleHierarchy[page.collaborators[i].role] >= roleHierarchy[requiredRole]

\* a truncation that keeps the oldest n entries
SliceFirst(h, n) == IF Len(h) <= n THEN h ELSE SubSeq(h, 1, n)

\* page.history.slice(-n)
SliceLast(h, n) == IF Len(h) <= n THEN h ELSE SubSeq(h, Len(h) - n + 1, Len(h))

\* a history step that truncates only above HistoryLimit + 1 entries
PushHistoryOffByOne(page) ==
  LET h == Append(page.history, [version |-> page.version, blocks |-> page.blocks])
  IN [page EXCEPT !.history = IF Len(h) > HistoryLimit + 1 THEN SliceLast(h, HistoryLimit + 1) ELSE h]

\* a history step that records the version the update is about to produce
PushHistoryNextVersion(page) ==
  LET h == Append(page.history, [version |-> page.version + 1, blocks |-> page.blocks])
  IN [page EXCEPT !.history = IF Len(h) > HistoryLimit THEN SliceLast(h, HistoryLimit) ELSE h]

\* page.history.push({version, blocks, ...}); keep only the last 10 versions
PushHistory(page) ==
  LET h == Append(page.history, [version |-> page.version, blocks |-> page.blocks])
  IN [page EXCEPT !.history = IF Len(h) > HistoryLimit THEN SliceLast(h, HistoryLimit) ELSE h]

\* an update that forgets page.version += 1
ApplyBlocksNoBump(page, blocks) == [PushHistory(page) EXCEPT !.blocks = blocks]

\* update-blocks and PUT /:id/blocks on the loaded copy: save to history,
\* then page.blocks = blocks; page.version += 1
ApplyBlocks(page, blocks) ==
  [PushHistory(page) EXCEPT !.blocks = blocks, !.version = page.version + 1]

\* a find whose test is h.version <= targetVersion
FindHistoryAtMost(history, targetVersion) ==
  LET hits == {i \in 1..Len(history) : history[i].version <= targetVersion}
  IN IF hits = {} THEN 0 ELSE CHOOSE i \in hits : \A j \in hits : i <= j

\* page.history.find(h => h.version === targetVersion): the index of the
\* first entry with that version, 0 when there is none
FindHistory(history, targetVersion) ==
  LET hits == {i \in 1..Len(history) : history[i].version = targetVersion}
  IN IF hits = {} THEN 0 ELSE CHOOSE i \in hits : \A j \in hits : i <= j

\* the undo-redo payload's explicit version; NoVersion is "version undefined"
NoVersion == -1

\* let targetVersion of the undo-redo handler; NoVersion when it stays undefined
TargetVersion(page, action, version) ==
  IF action = "undo" THEN page.version - 1
  ELSE IF action = "redo" THEN page.version + 1
  ELSE version

\* settings: the keys the model follows and their values; "none" is undefined
SettingsKeys == {"theme", "metaTitle"}
\* settings.theme default 'default'; metaTitle has no default
DefaultSettings == [theme |-> "default", metaTitle |-> "none"]
\* the settings objects a client sends with update-page-settings
SettingsPayloads == {[k \in {"theme"} |-> "dark"], [k \in {"metaTitle"} |-> "m1"]}

\* an update that stores the payload in place of the settings
MergeSettingsReplace(current, settings) ==
  [k \in SettingsKeys |-> IF k \in DOMAIN settings THEN settings[k] ELSE DefaultSettings[k]]

\* { ...page.settings, ...settings }
MergeSettings(current, settings) ==
  [k \in SettingsKeys |-> IF k \in DOMAIN settings THEN settings[k] ELSE current[k]]

\* a new document: schema defaults, no history
NewPage(owner, collaborators) ==
  [owner |-> owner, collaborators |-> collaborators, title |-> "t1",
   blocks |-> 0, version |-> DefaultVersion, history |-> << >>,
   settings |-> DefaultSettings]

\* the block list the k-th earlier edit of a seeded document sent
SeedBlocks(k) == (k % MaxBlockList) + 1

\* a document that k update-blocks events, one after the other, have edited
RECURSIVE Edited(_, _)
Edited(page, k) == IF k = 0 THEN page ELSE ApplyBlocks(Edited(page, k - 1), SeedBlocks(k))

\* how many edits the document p1 has behind it when the run starts
SeedEdits == {0, HistoryLimit - 1}

Page1 == NewPage("u1", <<[user |-> "u2", role |-> "editor"], [user |-> "u3", role |-> "viewer"]>>)
Page2 == NewPage("u4", <<[user |-> "u1", role |-> "viewer"], [user |-> "u3", role |-> "viewer"]>>)

\* a check of the mutating socket events that asks for viewer only
EditRoleViewer == "viewer"

\* page.hasAccess(socket.userId, 'editor'): the role the mutating socket events ask for
EditRole == "editor"

\* ------------------------------------------------------------ helpers
NoDoc == [owner |-> "none", collaborators |-> << >>, title |-> "none",
          blocks |-> 0, version |-> 0, history |-> << >>, settings |-> DefaultSettings]

\* a suspended handler: its event and payload (connection, page id, undo-redo
\* action and version), the document as loaded, its copy as the handler changed
\* it, and the paths it assigned
IdleTask == [kind |-> "idle", conn |-> "none", pageId |-> NoPage, action |-> "none",
             version |-> NoVersion, loaded |-> NoDoc, page |-> NoDoc, paths |-> {}]

\* Page.findById(pageId): a copy of the stored document, NoDoc for null
FindById(pageId) == IF pageId \in Pages THEN pages[pageId] ELSE NoDoc

FreeSlots == {s \in Slots : tasks[s].kind = "idle"}
FirstFree == CHOOSE s \in FreeSlots : \A t \in FreeSlots : s <= t

\* io.to(room): every connection subscribed to the room, the sender too
RoomAllIn(subscribed, c, room) ==
  {d \in Conns : status[d] = "connected" /\ room \in subscribed[d]}

\* socket.to(room): every connection subscribed to the room but the sender
RoomOthersIn(subscribed, c, room) ==
  {d \in Conns : status[d] = "connected" /\ room \in subscribed[d]} \ {c}
RoomOthers(c, room) == RoomOthersIn(rooms, c, room)

\* a message that carries no settings object
NoSettings == [k \in {} |-> "none"]

Msg(ev, from, to, room, version, blocks) ==
  [ev |-> ev, from |-> from, to |-> to, room |-> room, version |-> version, blocks |-> blocks,
   users |-> {}, settings |-> NoSettings]

\* io.emit('error', ...): an error sent to every connection
ErrorToAll(c) == Msg("error", c, Conns, NoPage, 0, 0)

\* socket.emit('error', ...)
ErrorTo(c) == Msg("error", c, {c}, NoPage, 0, 0)

\* the record of a step: the handler and where it ended, the connection (of a
\* room event), the page id of the payload, the undo-redo payload's action and
\* version, and socket.currentPageId as the step found it
Step(op, c, pageId, action) ==
  [op |-> op, conn |-> c, pageId |-> pageId, action |-> action, version |-> NoVersion,
   prev |-> NoPage]

\* a save that writes the whole copy over the stored document
SavedDocWhole(stored, task) ==
  [stored EXCEPT !.history = task.page.history, !.blocks = task.page.blocks,
                 !.version = task.page.version, !.title = task.page.title,
                 !.settings = task.page.settings]

\* a save that raises the stored version instead of writing the copy's
SavedDocIncrement(stored, task) ==
  [stored EXCEPT
     !.history = IF "history" \in task.paths THEN task.page.history ELSE @,
     !.blocks = IF "blocks" \in task.paths THEN task.page.blocks ELSE @,
     !.version = IF "version" \in task.paths THEN @ + 1 ELSE @,
     !.title = IF "title" \in task.paths THEN task.page.title ELSE @,
     !.settings = IF "settings" \in task.paths THEN task.page.settings ELSE @]

\* page.save() of a handler's copy: the assigned paths reach the store
SavedDoc(stored, task) ==
  [stored EXCEPT
     !.history = IF "history" \in task.paths THEN task.page.history ELSE @,
     !.blocks = IF "blocks" \in task.paths THEN task.page.blocks ELSE @,
     !.version = IF "version" \in task.paths THEN task.page.version ELSE @,
     !.title = IF "title" \in task.paths THEN task.page.title ELSE @,
     !.settings = IF "settings" \in task.paths THEN task.page.settings ELSE @]

\* the record of a save in writeLog: the stored blocks and version before it,
\* whether the handler's copy was loaded from exactly that stored state, and
\* the connection of the handler
Logged(log, op, stored, task) ==
  SliceLast(Append(log, [op |-> op, blocks |-> stored.blocks, version |-> stored.version,
                         fresh |-> (task.loaded = stored), conn |-> task.conn]), 2)

\* ---------------------------------------------------- presence registry
NoPresence == [p \in {} |-> {}]

\* an addUserToPage that starts a new map for the page each time
addUserToPageFresh(au, pageId, userId) ==
  [p \in DOMAIN au \cup {pageId} |-> IF p = pageId THEN {userId} ELSE au[p]]

\* addUserToPage: create the page's map if absent, set the user's entry
addUserToPage(au, pageId, userId) ==
  IF pageId \in DOMAIN au
  THEN [au EXCEPT ![pageId] = @ \cup {userId}]
  ELSE [p \in DOMAIN au \cup {pageId} |-> IF p = pageId THEN {userId} ELSE au[p]]

\* a removeUserFromPage that removes nothing
removeUserFromPageNoop(au, pageId, userId) == au

\* a removeUserFromPage that keeps the page's map when it becomes empty
removeUserFromPageKeepsMap(au, pageId, userId) ==
  IF pageId \notin DOMAIN au THEN au ELSE [au EXCEPT ![pageId] = @ \ {userId}]

\* removeUserFromPage: delete the user's entry, and the page's map when empty
removeUserFromPage(au, pageId, userId) ==
  IF pageId \notin DOMAIN au THEN au
  ELSE IF au[pageId] \ {userId} = {}
       THEN [p \in DOMAIN au \ {pageId} |-> au[p]]
       ELSE [au EXCEPT ![pageId] = @ \ {userId}]

\* a getActiveUsersForPage that lists nobody
getActiveUsersNone(au, pageId) == {}

\* getActiveUsersForPage: the entries of the page, none when it has no map
getActiveUsersForPage(au, pageId) == IF pageId \in DOMAIN au THEN au[pageId] ELSE {}

\* ------------------------------------------------------------ initial
InitCommon ==
  /\ tasks = [s \in Slots |-> IdleTask]
  /\ currentPageId = [c \in Conns |-> NoPage]
  /\ rooms = [c \in Conns |-> {}]
  /\ status = [c \in Conns |-> "connected"]
  /\ activeUsers = NoPresence
  /\ emitted = << >>
  /\ last = Step("init", "none", NoPage, "none")
  /\ writeLog = [p \in Pages |-> << >>]

NoCall == [called |-> FALSE, page |-> NoDoc, userId |-> "none", requiredRole |-> "viewer",
           result |-> FALSE]

\* a run starts with p1 new or edited before, and nobody in a room
Init ==
  /\ InitCommon
  /\ \E k \in SeedEdits : pages = [p \in Pages |-> IF p = "p1" THEN Edited(Page1, k) ELSE Page2]
  /\ ub = [initial |-> pages["p1"].version, n |-> 0, stale |-> FALSE]
  /\ socketUserId = OneEach
  /\ acc = NoCall
  /\ eventsLeft = MaxEvents

\* the environment sends one more event
CanStart == eventsLeft > 0
Started == eventsLeft' = eventsLeft - 1

Suspend(task) == tasks' = [tasks EXCEPT ![FirstFree] = task]
Resume(s) == tasks' = [tasks EXCEPT ![s] = IdleTask]

\* -------------------------------------------------------- update-blocks
\* socket.on('update-blocks'): from the event to the call of page.save()
UpdateBlocksLoad(c, pageId, blocks) ==
  /\ CanStart /\ status[c] = "connected" /\ FreeSlots # {}
  /\ Started
  /\ LET page == FindById(pageId) IN
       IF pageId \notin Pages \/ ~hasAccess(page, socketUserId[c], EditRole)
       THEN /\ emitted' = <<ErrorTo(c)>>
            /\ last' = Step("update-blocks-denied", "none", pageId, "none")
            /\ UNCHANGED tasks
       ELSE /\ Suspend([kind |-> "update-blocks", conn |-> c,
                        pageId |-> pageId, action |-> "none",
                        version |-> NoVersion, loaded |-> page,
                        page |-> ApplyBlocks(page, blocks),
                        paths |-> {"history", "blocks", "version"}])
            /\ emitted' = << >>
            /\ last' = Step("update-blocks-load", "none", pageId, "none")
  /\ UNCHANGED <<pages, currentPageId, rooms, status, activeUsers, writeLog, acc, socketUserId, ub>>

\* await page.save() returns: the write, then the broadcast to the room
UpdateBlocksSave(s) ==
  LET t == tasks[s] IN
  /\ t.kind = "update-blocks"
  /\ pages' = [pages EXCEPT ![t.pageId] = SavedDoc(@, t)]
  /\ writeLog' = [writeLog EXCEPT ![t.pageId] = Logged(@, "update-blocks", pages[t.pageId], t)]
  /\ emitted' = <<Msg("blocks-updated", t.conn, RoomOthers(t.conn, t.pageId), t.pageId,
                      t.page.version, t.page.blocks)>>
  /\ last' = Step("update-blocks-saved", "none", t.pageId, "none")
  /\ ub' = [ub EXCEPT !.n = @ + 1, !.stale = @ \/ t.loaded # pages[t.pageId]]
  /\ Resume(s)
  /\ UNCHANGED <<currentPageId, rooms, status, activeUsers, eventsLeft, acc, socketUserId>>

\* ------------------------------------------------------------ undo-redo
Actions == {"undo", "redo", "goto"}
\* the explicit versions a client sends with an action that is neither
GotoVersions == {NoVersion, 1}

\* socket.on('undo-redo'): from the event to the call of page.save(), or to
\* the end of the handler when the target version has no history entry
UndoRedoLoad(c, pageId, action, version) ==
  /\ CanStart /\ status[c] = "connected" /\ FreeSlots # {}
  /\ Started
  /\ LET page == FindById(pageId) IN
       IF pageId \notin Pages \/ ~hasAccess(page, socketUserId[c], EditRole)
       THEN /\ emitted' = <<ErrorTo(c)>>
            /\ last' = [Step("undo-redo-denied", "none", pageId, action) EXCEPT !.version = version]
            /\ UNCHANGED tasks
       ELSE LET targetVersion == TargetVersion(page, action, version)
                i == FindHistory(page.history, targetVersion)
            IN IF i = 0
               THEN /\ emitted' = << >>
                    /\ last' = [Step("undo-redo-noop", c, pageId, action) EXCEPT !.version = version]
                    /\ UNCHANGED tasks
               ELSE /\ Suspend([kind |-> "undo-redo", conn |-> c,
                                pageId |-> pageId, action |-> action,
                                version |-> version, loaded |-> page,
                                page |-> [page EXCEPT !.blocks = page.history[i].blocks,
                                                      !.version = targetVersion],
                                paths |-> {"blocks", "version"}])
                    /\ emitted' = << >>
                    /\ last' = [Step("undo-redo-load", "none", pageId, action) EXCEPT !.version = version]
  /\ UNCHANGED <<pages, currentPageId, rooms, status, activeUsers, writeLog, acc, socketUserId, ub>>

\* await page.save() returns: the write, then history-navigated to the room
UndoRedoSave(s) ==
  LET t == tasks[s] IN
  /\ t.kind = "undo-redo"
  /\ pages' = [pages EXCEPT ![t.pageId] = SavedDoc(@, t)]
  /\ writeLog' = [writeLog EXCEPT ![t.pageId] = Logged(@, t.action, pages[t.pageId], t)]
  /\ emitted' = <<Msg("history-navigated", t.conn, RoomOthers(t.conn, t.pageId), t.pageId,
                      t.page.version, t.page.blocks)>>
  /\ last' = Step("undo-redo-saved", "none", t.pageId, t.action)
  /\ Resume(s)
  /\ UNCHANGED <<currentPageId, rooms, status, activeUsers, eventsLeft, acc, socketUserId, ub>>

\* a save that rejects after it has written
SaveFailsAfterWrite(s) ==
  LET t == tasks[s] IN
  /\ t.kind \in {"update-blocks", "undo-redo", "update-page-settings", "update-page-title"}
  /\ pages' = [pages EXCEPT ![t.pageId] = SavedDoc(@, t)]
  /\ emitted' = <<ErrorTo(t.conn)>>
  /\ last' = Step("save-failed", "none", t.pageId, t.action)
  /\ Resume(s)
  /\ UNCHANGED <<currentPageId, rooms, status, activeUsers, writeLog, eventsLeft, acc, socketUserId, ub>>

\* page.save() rejects: the handler's catch reports to the sender alone
SaveFails(s) ==
  LET t == tasks[s] IN
  /\ t.kind \in {"update-blocks", "undo-redo", "update-page-settings", "update-page-title"}
  /\ emitted' = <<ErrorTo(t.conn)>>
  /\ last' = Step("save-failed", "none", t.pageId, t.action)
  /\ Resume(s)
  /\ UNCHANGED <<pages, currentPageId, rooms, status, activeUsers, writeLog, eventsLeft, acc, socketUserId, ub>>

\* ------------------------------------ update-page-settings, update-page-title
\* socket.on('update-page-settings'): from the event to the call of page.save()
UpdateSettingsLoad(c, pageId, settings) ==
  /\ CanStart /\ status[c] = "connected" /\ FreeSlots # {}
  /\ Started
  /\ LET page == FindById(pageId) IN
       IF pageId \notin Pages \/ ~hasAccess(page, socketUserId[c], EditRole)
       THEN /\ emitted' = <<ErrorTo(c)>>
            /\ last' = Step("update-page-settings-denied", "none", pageId, "none")
            /\ UNCHANGED tasks
       ELSE /\ Suspend([kind |-> "update-page-settings", conn |-> c,
                        pageId |-> pageId, action |-> "none",
                        version |-> NoVersion, loaded |-> page,
                        page |-> [page EXCEPT !.settings = MergeSettings(@, settings)],
                        paths |-> {"settings"}, settings |-> settings])
            /\ emitted' = << >>
            /\ last' = Step("update-page-settings-load", "none", pageId, "none")
  /\ UNCHANGED <<pages, currentPageId, rooms, status, activeUsers, writeLog, acc, socketUserId, ub>>

\* await page.save() returns: the write, then page-settings-updated to the room
UpdateSettingsSave(s) ==
  LET t == tasks[s] IN
  /\ t.kind = "update-page-settings"
  /\ pages' = [pages EXCEPT ![t.pageId] = SavedDoc(@, t)]
  /\ emitted' = <<[Msg("page-settings-updated", t.conn, RoomOthers(t.conn, t.pageId),
                       t.pageId, 0, 0) EXCEPT !.settings = t.page.settings]>>
  /\ last' = Step("update-page-settings-saved", "none", t.pageId, "none")
  /\ Resume(s)
  /\ UNCHANGED <<currentPageId, rooms, status, activeUsers, writeLog, eventsLeft, acc, socketUserId, ub>>

\* socket.on('update-page-title'): from the event to the call of page.save()
UpdateTitleLoad(c, pageId, title) ==
  /\ CanStart /\ status[c] = "connected" /\ FreeSlots # {}
  /\ Started
  /\ LET page == FindById(pageId) IN
       IF pageId \notin Pages \/ ~hasAccess(page, socketUserId[c], EditRole)
       THEN /\ emitted' = <<ErrorTo(c)>>
            /\ last' = Step("update-page-title-denied", "none", pageId, "none")
            /\ UNCHANGED tasks
       ELSE /\ Suspend([kind |-> "update-page-title", conn |-> c,
                        pageId |-> pageId, action |-> "none",
                        version |-> NoVersion, loaded |-> page,
                        page |-> [page EXCEPT !.title = title],
                        paths |-> {"title"}])
            /\ emitted' = << >>
            /\ last' = Step("update-page-title-load", "none", pageId, "none")
  /\ UNCHANGED <<pages, currentPageId, rooms, status, activeUsers, writeLog, acc, socketUserId, ub>>

\* await page.save() returns: the write, then page-title-updated to the room
UpdateTitleSave(s) ==
  LET t == tasks[s] IN
  /\ t.kind = "update-page-title"
  /\ pages' = [pages EXCEPT ![t.pageId] = SavedDoc(@, t)]
  /\ emitted' = <<Msg("page-title-updated", t.conn, RoomOthers(t.conn, t.pageId), t.pageId, 0, 0)>>
  /\ last' = Step("update-page-title-saved", "none", t.pageId, "none")
  /\ Resume(s)
  /\ UNCHANGED <<currentPageId, rooms, status, activeUsers, writeLog, eventsLeft, acc, socketUserId, ub>>

\* ----------------------------------------------------- ephemeral events
EphemeralEvents == {"user-cursor", "block-selected", "user-typing"}

\* an ephemeral handler that answers an unbound connection with an error
EphemeralErrorWhenUnbound(c, ev) ==
  /\ CanStart /\ status[c] = "connected"
  /\ Started
  /\ emitted' = IF currentPageId[c] # NoPage
                THEN <<Msg(ev, c, RoomOthers(c, currentPageId[c]), currentPageId[c], 0, 0)>>
                ELSE <<ErrorTo(c)>>
  /\ last' = Step(ev, c, currentPageId[c], "none")
  /\ UNCHANGED <<pages, tasks, currentPageId, rooms, status, activeUsers, writeLog, acc, socketUserId, ub>>

\* socket.on('cursor-move' / 'block-select' / 'typing-start' / 'typing-stop'):
\* relayed to socket.currentPageId when the connection has one
Ephemeral(c, ev) ==
  /\ CanStart /\ status[c] = "connected"
  /\ Started
  /\ emitted' = IF currentPageId[c] # NoPage
                THEN <<Msg(ev, c, RoomOthers(c, currentPageId[c]), currentPageId[c], 0, 0)>>
                ELSE << >>
  /\ last' = Step(ev, c, currentPageId[c], "none")
  /\ UNCHANGED <<pages, tasks, currentPageId, rooms, status, activeUsers, writeLog, acc, socketUserId, ub>>

\* ----------------------------------------------------------------- REST
\* PUT /api/pages/:id/blocks: from the request to the call of page.save()
RestBlocksLoad(u, pageId, blocks) ==
  /\ CanStart /\ FreeSlots # {}
  /\ Started
  /\ LET page == FindById(pageId) IN
       IF pageId \notin Pages
       THEN /\ last' = Step("rest-blocks-404", "none", pageId, "none") /\ UNCHANGED tasks
       ELSE IF ~hasAccess(page, u, "editor")
       THEN /\ last' = Step("rest-blocks-403", "none", pageId, "none") /\ UNCHANGED tasks
       ELSE /\ Suspend([kind |-> "rest-blocks", conn |-> "none",
                        pageId |-> pageId, action |-> "none",
                        version |-> NoVersion, loaded |-> page,
                        page |-> ApplyBlocks(page, blocks),
                        paths |-> {"history", "blocks", "version"}])
            /\ last' = Step("rest-blocks-load", "none", pageId, "none")
  /\ emitted' = << >>
  /\ UNCHANGED <<pages, currentPageId, rooms, status, activeUsers, writeLog, acc, socketUserId, ub>>

\* the request bodies of PUT /api/pages/:id the model sends: blocks, or a title
PutBodies == {[hasBlocks |-> TRUE, blocks |-> 1, hasTitle |-> FALSE, title |-> "t2"],
              [hasBlocks |-> FALSE, blocks |-> 1, hasTitle |-> TRUE, title |-> "t2"]}

\* PUT /api/pages/:id on the loaded copy: the history step only when the body
\* holds blocks, then Object.assign(page, req.body)
ApplyPut(page, body) ==
  LET p1 == IF body.hasBlocks
            THEN [PushHistory(page) EXCEPT !.version = page.version + 1, !.blocks = body.blocks]
            ELSE page
  IN IF body.hasTitle THEN [p1 EXCEPT !.title = body.title] ELSE p1

\* PUT /api/pages/:id: from the request to the call of page.save()
RestPutLoad(u, pageId, body) ==
  /\ CanStart /\ FreeSlots # {}
  /\ Started
  /\ LET page == FindById(pageId) IN
       IF pageId \notin Pages
       THEN /\ last' = Step("rest-put-404", "none", pageId, "none") /\ UNCHANGED tasks
       ELSE IF ~hasAccess(page, u, "editor")
       THEN /\ last' = Step("rest-put-403", "none", pageId, "none") /\ UNCHANGED tasks
       ELSE /\ Suspend([kind |-> "rest-put", conn |-> "none",
                        pageId |-> pageId, action |-> "none",
                        version |-> NoVersion, loaded |-> page,
                        page |-> ApplyPut(page, body),
                        paths |-> (IF body.hasBlocks THEN {"history", "blocks", "version"} ELSE {})
                                  \cup (IF body.hasTitle THEN {"title"} ELSE {})])
            /\ last' = Step("rest-put-load", "none", pageId, "none")
  /\ emitted' = << >>
  /\ UNCHANGED <<pages, currentPageId, rooms, status, activeUsers, writeLog, acc, socketUserId, ub>>

\* await page.save() of either PUT returns: the write, then the 200 response;
\* when it rejects, the 500 response and no write
RestSave(s) ==
  LET t == tasks[s] IN
  /\ t.kind \in {"rest-blocks", "rest-put"}
  /\ \/ /\ pages' = [pages EXCEPT ![t.pageId] = SavedDoc(@, t)]
        /\ writeLog' = [writeLog EXCEPT ![t.pageId] =
                          IF "blocks" \in t.paths THEN Logged(@, t.kind, pages[t.pageId], t) ELSE @]
        /\ last' = Step("rest-saved", "none", t.pageId, t.kind)
     \/ /\ UNCHANGED <<pages, writeLog>>
        /\ last' = Step("rest-500", "none", t.pageId, t.kind)
  /\ emitted' = << >>
  /\ Resume(s)
  /\ UNCHANGED <<currentPageId, rooms, status, activeUsers, eventsLeft, acc, socketUserId, ub>>

\* ------------------------------------------------------------ join-page
\* socket.on('join-page'): the event arrives and the handler awaits Page.findById
JoinPage(c, pageId) ==
  /\ CanStart /\ status[c] = "connected" /\ FreeSlots # {}
  /\ Started
  /\ Suspend([IdleTask EXCEPT !.kind = "join-page", !.conn = c, !.pageId = pageId])
  /\ emitted' = << >>
  /\ last' = Step("join-page", c, pageId, "none")
  /\ UNCHANGED <<pages, currentPageId, rooms, status, activeUsers, writeLog, acc, socketUserId, ub>>

\* a join that does not leave the previous room
RoomsAfterJoinNoLeave(c, pageId) == [rooms EXCEPT ![c] = @ \cup {pageId}]

\* the rooms of connection c after the join-page handler's leave and join
RoomsAfterJoin(c, pageId) ==
  [rooms EXCEPT ![c] = (IF currentPageId[c] # NoPage THEN @ \ {currentPageId[c]} ELSE @)
                       \cup {pageId}]

\* a join that does not remove the user from the previous page
PresenceAfterJoinNoRemove(c, pageId) == addUserToPage(activeUsers, pageId, socketUserId[c])

\* the registry after the join-page handler's removeUserFromPage and addUserToPage
PresenceAfterJoin(c, pageId) ==
  addUserToPage(IF currentPageId[c] # NoPage
                THEN removeUserFromPage(activeUsers, currentPageId[c], socketUserId[c])
                ELSE activeUsers,
                pageId, socketUserId[c])

\* a join-page handler that subscribes to the room before it checks the document
JoinPageLoadSubscribesFirst(s) ==
  LET t == tasks[s]
      c == t.conn
      page == FindById(t.pageId)
  IN
  /\ t.kind = "join-page"
  /\ Resume(s)
  /\ rooms' = RoomsAfterJoin(c, t.pageId)
  /\ IF t.pageId \notin Pages \/ ~hasAccess(page, socketUserId[c], "viewer")
     THEN /\ emitted' = <<ErrorTo(c)>>
          /\ last' = [Step("join-page-denied", c, t.pageId, "none") EXCEPT !.prev = currentPageId[c]]
          /\ UNCHANGED <<currentPageId, activeUsers>>
     ELSE /\ currentPageId' = [currentPageId EXCEPT ![c] = t.pageId]
          /\ activeUsers' = PresenceAfterJoin(c, t.pageId)
          /\ emitted' = <<Msg("user-joined", c, RoomOthersIn(rooms', c, t.pageId), t.pageId, 0, 0),
                          [Msg("active-users", c, {c}, NoPage, 0, 0) EXCEPT
                             !.users = getActiveUsersForPage(activeUsers', t.pageId)]>>
          /\ last' = [Step("join-page-done", c, t.pageId, "none") EXCEPT !.prev = currentPageId[c]]
  /\ UNCHANGED <<pages, status, writeLog, eventsLeft, acc, socketUserId, ub>>

\* Page.findById returns to the join-page handler, which runs to its end
JoinPageLoad(s) ==
  LET t == tasks[s]
      c == t.conn
      page == FindById(t.pageId)
  IN
  /\ t.kind = "join-page"
  /\ Resume(s)
  /\ IF t.pageId \notin Pages \/ ~hasAccess(page, socketUserId[c], "viewer")
     THEN /\ emitted' = <<ErrorTo(c)>>
          /\ last' = [Step("join-page-denied", c, t.pageId, "none") EXCEPT !.prev = currentPageId[c]]
          /\ UNCHANGED <<currentPageId, rooms, activeUsers>>
     ELSE /\ rooms' = RoomsAfterJoin(c, t.pageId)
          /\ currentPageId' = [currentPageId EXCEPT ![c] = t.pageId]
          /\ activeUsers' = PresenceAfterJoin(c, t.pageId)
          /\ emitted' = <<Msg("user-joined", c, RoomOthersIn(rooms', c, t.pageId), t.pageId, 0, 0),
                          [Msg("active-users", c, {c}, NoPage, 0, 0) EXCEPT
                             !.users = getActiveUsersForPage(activeUsers', t.pageId)]>>
          /\ last' = [Step("join-page-done", c, t.pageId, "none") EXCEPT !.prev = currentPageId[c]]
  /\ UNCHANGED <<pages, status, writeLog, eventsLeft, acc, socketUserId, ub>>

\* Page.findById rejects: the join-page handler's catch
JoinPageFails(s) ==
  LET t == tasks[s] IN
  /\ t.kind = "join-page"
  /\ Resume(s)
  /\ emitted' = <<ErrorTo(t.conn)>>
  /\ last' = [Step("join-page-failed", t.conn, t.pageId, "none") EXCEPT !.prev = currentPageId[t.conn]]
  /\ UNCHANGED <<pages, currentPageId, rooms, status, activeUsers, writeLog, eventsLeft, acc, socketUserId, ub>>

\* ----------------------------------------------------------- disconnect
\* the socket closes: it leaves its rooms, then socket.on('disconnect') runs
Disconnect(c) ==
  /\ status[c] = "connected"
  /\ status' = [status EXCEPT ![c] = "disconnected"]
  /\ rooms' = [rooms EXCEPT ![c] = {}]
  /\ IF currentPageId[c] # NoPage
     THEN /\ activeUsers' = removeUserFromPage(activeUsers, currentPageId[c], socketUserId[c])
          /\ emitted' = <<Msg("user-left", c, RoomOthersIn(rooms', c, currentPageId[c]),
                              currentPageId[c], 0, 0)>>
     ELSE /\ emitted' = << >>
          /\ UNCHANGED activeUsers
  /\ last' = [Step("disconnect", c, NoPage, "none") EXCEPT !.prev = currentPageId[c]]
  /\ UNCHANGED <<pages, tasks, currentPageId, writeLog, eventsLeft, acc, socketUserId, ub>>

\* ------------------------------------------------------ specifications
NextDoc ==
  \/ \E c \in Conns, p \in EditPageIds, b \in BlockLists : UpdateBlocksLoad(c, p, b)
  \/ \E s \in Slots : UpdateBlocksSave(s)
  \/ \E c \in Conns, p \in EditPageIds, a \in Actions, v \in GotoVersions :
       (a # "goto" => v = NoVersion) /\ UndoRedoLoad(c, p, a, v)
  \/ \E s \in Slots : UndoRedoSave(s)
  \/ \E s \in Slots : SaveFails(s)
  \/ \E u \in Users, p \in EditPageIds, b \in BlockLists : RestBlocksLoad(u, p, b)
  \/ \E u \in Users, p \in EditPageIds, body \in PutBodies : RestPutLoad(u, p, body)
  \/ \E s \in Slots : RestSave(s)

NextRoom ==
  \/ \E c \in Conns, p \in PageIds : JoinPage(c, p)
  \/ \E s \in Slots : JoinPageLoad(s)
  \/ \E s \in Slots : JoinPageFails(s)
  \/ \E c \in Conns : Disconnect(c)

Next == NextDoc \/ NextRoom

\* the document events and requests alone
SpecDoc == Init /\ [][NextDoc]_vars

\* the room events alone, with one connection per user or two connections of u1
InitRoom ==
  /\ InitCommon
  /\ pages = [p \in Pages |-> IF p = "p1" THEN Page1 ELSE Page2]
  /\ ub = [initial |-> DefaultVersion, n |-> 0, stale |-> FALSE]
  /\ socketUserId \in {OneEach, TwoOfOne}
  /\ acc = NoCall
  /\ eventsLeft = MaxRoomEvents

SpecRoom == InitRoom /\ [][NextRoom]_vars

\* update-blocks events alone: no undo-redo, no REST request
NextBlocks ==
  \/ \E c \in Conns, p \in EditPageIds, b \in BlockLists : UpdateBlocksLoad(c, p, b)
  \/ \E s \in Slots : UpdateBlocksSave(s)
  \/ \E s \in Slots : SaveFails(s)

SpecBlocks == Init /\ [][NextBlocks]_vars

\* one editor, the owner on connection c1, editing p1 and navigating its history
InitUndo ==
  /\ InitCommon
  /\ \E k \in SeedEdits : pages = [p \in Pages |-> IF p = "p1" THEN Edited(Page1, k) ELSE Page2]
  /\ ub = [initial |-> pages["p1"].version, n |-> 0, stale |-> FALSE]
  /\ socketUserId = OneEach
  /\ acc = NoCall
  /\ eventsLeft = MaxUndoEvents

NextUndo ==
  \/ \E b \in BlockLists : UpdateBlocksLoad("c1", "p1", b)
  \/ \E s \in Slots : UpdateBlocksSave(s)
  \/ \E a \in Actions, v \in GotoVersions :
       (a # "goto" => v = NoVersion) /\ UndoRedoLoad("c1", "p1", a, v)
  \/ \E s \in Slots : UndoRedoSave(s)

SpecUndo == InitUndo /\ [][NextUndo]_vars

Spec == Init /\ [][Next]_vars

\* every socket event, with the connections already in rooms
MaxSocketEvents == 2

\* the rooms the connections have joined when the run starts: c1 none or a
\* page its user may view, c2 the page p1 it may edit, c3 a page it may view
JoinedChoices ==
  {j \in [Conns -> Pages \cup {NoPage}] :
     /\ j["c2"] = "p1" /\ j["c3"] # NoPage
     /\ \A c \in Conns : j[c] # NoPage =>
          hasAccess(IF j[c] = "p1" THEN Page1 ELSE Page2, OneEach[c], "viewer")}

\* the registry after the joins of j: addUserToPage for each joined connection
PresenceOf(j) ==
  LET joined == {j[c] : c \in Conns} \ {NoPage}
  IN [p \in joined |-> {OneEach[c] : c \in {d \in Conns : j[d] = p}}]

\* p1 has one edit behind it; the connections have completed their joins
InitSocket ==
  /\ tasks = [s \in Slots |-> IdleTask]
  /\ status = [c \in Conns |-> "connected"]
  /\ emitted = << >>
  /\ last = Step("init", "none", NoPage, "none")
  /\ writeLog = [p \in Pages |-> << >>]
  /\ pages = [p \in Pages |-> IF p = "p1" THEN Edited(Page1, 1) ELSE Page2]
  /\ ub = [initial |-> pages["p1"].version, n |-> 0, stale |-> FALSE]
  /\ socketUserId = OneEach
  /\ acc = NoCall
  /\ eventsLeft = MaxSocketEvents
  /\ \E j \in JoinedChoices :
       /\ currentPageId = j
       /\ rooms = [c \in Conns |-> IF j[c] = NoPage THEN {} ELSE {j[c]}]
       /\ activeUsers = PresenceOf(j)

NextSocket ==
  \/ \E c \in Conns, p \in PageIds : JoinPage(c, p)
  \/ \E s \in Slots : JoinPageLoad(s)
  \/ \E s \in Slots : JoinPageFails(s)
  \/ \E c \in Conns : Disconnect(c)
  \/ \E c \in Conns, p \in EditPageIds, b \in BlockLists : UpdateBlocksLoad(c, p, b)
  \/ \E s \in Slots : UpdateBlocksSave(s)
  \/ \E c \in Conns, p \in EditPageIds, a \in Actions, v \in GotoVersions :
       (a # "goto" => v = NoVersion) /\ UndoRedoLoad(c, p, a, v)
  \/ \E s \in Slots : UndoRedoSave(s)
  \/ \E c \in Conns, p \in EditPageIds, st \in SettingsPayloads : UpdateSettingsLoad(c, p, st)
  \/ \E s \in Slots : UpdateSettingsSave(s)
  \/ \E c \in Conns, p \in EditPageIds, t \in Titles : UpdateTitleLoad(c, p, t)
  \/ \E s \in Slots : UpdateTitleSave(s)
  \/ \E s \in Slots : SaveFails(s)
  \/ \E c \in Conns, ev \in EphemeralEvents : Ephemeral(c, ev)

SpecSocket == InitSocket /\ [][NextSocket]_vars

\* the four mutating socket events alone, on any page id
NextEdit ==
  \/ \E c \in Conns, p \in PageIds, b \in BlockLists : UpdateBlocksLoad(c, p, b)
  \/ \E s \in Slots : UpdateBlocksSave(s)
  \/ \E c \in Conns, p \in PageIds, a \in Actions, v \in GotoVersions :
       (a # "goto" => v = NoVersion) /\ UndoRedoLoad(c, p, a, v)
  \/ \E s \in Slots : UndoRedoSave(s)
  \/ \E c \in Conns, p \in PageIds, st \in SettingsPayloads : UpdateSettingsLoad(c, p, st)
  \/ \E s \in Slots : UpdateSettingsSave(s)
  \/ \E c \in Conns, p \in PageIds, t \in Titles : UpdateTitleLoad(c, p, t)
  \/ \E s \in Slots : UpdateTitleSave(s)
  \/ \E s \in Slots : SaveFails(s)

SpecEdit == InitSocket /\ [][NextEdit]_vars

\* ------------------------------------------------------------ handshake
\* events after the handshakes
MaxAuthEvents == 2

\* what the handshake of a connection carries: no token, a token jwt.verify
\* rejects, a token of a user that does not exist, of an inactive user, of an
\* active user
Tokens == {"no-token", "invalid-token", "missing-user", "inactive-user", "valid-token"}

\* a middleware that does not look at user.isActive
AuthenticateInactiveToo(token) ==
  IF token = "no-token" THEN "Authentication error: No token provided"
  ELSE IF token = "invalid-token" THEN "Authentication error: Invalid token"
  ELSE IF token = "missing-user" THEN "Authentication error: Invalid user"
  ELSE "ok"

\* io.use: the error the middleware passes to next, "ok" when it passes none
Authenticate(token) ==
  IF token = "no-token" THEN "Authentication error: No token provided"
  ELSE IF token = "invalid-token" THEN "Authentication error: Invalid token"
  ELSE IF token \in {"missing-user", "inactive-user"} THEN "Authentication error: Invalid user"
  ELSE "ok"

\* the handshake of connection c: the middleware runs; the connection handler
\* runs, and registers the event handlers, only when it passed no error
Handshake(c) ==
  /\ status[c] \in Tokens
  /\ IF Authenticate(status[c]) = "ok"
     THEN /\ status' = [status EXCEPT ![c] = "connected"]
          /\ socketUserId' = [socketUserId EXCEPT ![c] = OneEach[c]]
          /\ last' = Step("handshake-accepted", c, NoPage, status[c])
     ELSE /\ status' = [status EXCEPT ![c] = "rejected"]
          /\ UNCHANGED socketUserId
          /\ last' = Step("handshake-rejected", c, NoPage, status[c])
  /\ emitted' = << >>
  /\ UNCHANGED <<pages, tasks, currentPageId, rooms, activeUsers, writeLog, eventsLeft, acc, ub>>

\* no connection yet: each is about to send its handshake
InitAuth ==
  /\ tasks = [s \in Slots |-> IdleTask]
  /\ currentPageId = [c \in Conns |-> NoPage]
  /\ rooms = [c \in Conns |-> {}]
  /\ status \in [Conns -> Tokens]
  /\ status["c3"] = "valid-token"
  /\ activeUsers = NoPresence
  /\ emitted = << >>
  /\ last = Step("init", "none", NoPage, "none")
  /\ writeLog = [p \in Pages |-> << >>]
  /\ pages = [p \in Pages |-> IF p = "p1" THEN Page1 ELSE Page2]
  /\ ub = [initial |-> DefaultVersion, n |-> 0, stale |-> FALSE]
  /\ socketUserId = [c \in Conns |-> "none"]
  /\ acc = NoCall
  /\ eventsLeft = MaxAuthEvents

NextAuth ==
  \/ \E c \in Conns : Handshake(c)
  \/ \E c \in Conns, p \in PageIds : JoinPage(c, p)
  \/ \E s \in Slots : JoinPageLoad(s)
  \/ \E s \in Slots : JoinPageFails(s)
  \/ \E c \in Conns : Disconnect(c)
  \/ \E c \in Conns, p \in EditPageIds, b \in BlockLists : UpdateBlocksLoad(c, p, b)
  \/ \E s \in Slots : UpdateBlocksSave(s)
  \/ \E s \in Slots : SaveFails(s)
  \/ \E c \in Conns, ev \in EphemeralEvents : Ephemeral(c, ev)

SpecAuth == InitAuth /\ [][NextAuth]_vars

\* hasAccess on its own: every document of up to MaxCollaborators
\* collaborator entries, every user, every required role
MaxCollaborators == 2
AllUsers == Users \cup {"u4"}
CollaboratorLists ==
  UNION {[1..n -> [user : Users, role : Roles]] : n \in 0..MaxCollaborators}

InitAccess ==
  /\ InitCommon
  /\ pages = [p \in Pages |-> IF p = "p1" THEN Page1 ELSE Page2]
  /\ ub = [initial |-> DefaultVersion, n |-> 0, stale |-> FALSE]
  /\ socketUserId = OneEach
  /\ eventsLeft = 0
  /\ \E o \in Users, cl \in CollaboratorLists, u \in Users, r \in Roles :
       acc = [called |-> FALSE, page |-> NewPage(o, cl), userId |-> u, requiredRole |-> r,
              result |-> FALSE]

\* page.hasAccess(userId, requiredRole) is called
CallHasAccess ==
  /\ ~acc.called
  /\ acc' = [acc EXCEPT !.called = TRUE,
                        !.result = hasAccess(acc.page, acc.userId, acc.requiredRole)]
  /\ UNCHANGED <<pages, tasks, currentPageId, rooms, status, activeUsers, emitted, last,
                 writeLog, eventsLeft, socketUserId, ub>>

SpecAccess == InitAccess /\ [][CallHasAccess]_vars

\* ------------------------------------------------------- collaborators
\* pageSchema.methods.addCollaborator on the loaded copy: push the entry unless
\* the user has one
addCollaborator(page, userId, role) ==
  IF FindCollaborator(page.collaborators, userId) = 0
  THEN [page EXCEPT !.collaborators = Append(@, [user |-> userId, role |-> role])]
  ELSE page

\* this.collaborators.filter(collab => collab.user !== userId)
FilterOut(collaborators, userId) ==
  LET keep == {i \in 1..Len(collaborators) : collaborators[i].user # userId}
      nth(k) == CHOOSE i \in keep : Cardinality({j \in keep : j <= i}) = k
  IN [k \in 1..Cardinality(keep) |-> collaborators[nth(k)]]

\* pageSchema.methods.removeCollaborator on the loaded copy
removeCollaborator(page, userId) ==
  [page EXCEPT !.collaborators = FilterOut(@, userId)]

\* hasAccess on a document whose collaborators the routes have written: the
\* document starts with its owner alone
InitGrant ==
  /\ InitCommon
  /\ pages = [p \in Pages |-> IF p = "p1" THEN Page1 ELSE Page2]
  /\ ub = [initial |-> DefaultVersion, n |-> 0, stale |-> FALSE]
  /\ socketUserId = OneEach
  /\ eventsLeft = 0
  /\ \E o \in Users, u \in AllUsers, r \in Roles :
       acc = [called |-> FALSE, page |-> NewPage(o, << >>), userId |-> u, requiredRole |-> r,
              result |-> FALSE]

UnchangedButAcc ==
  UNCHANGED <<pages, tasks, currentPageId, rooms, status, activeUsers, emitted, last,
              writeLog, eventsLeft, socketUserId, ub>>

\* POST /api/pages/:id/collaborators by caller for userId, on the document
\* hasAccess is going to be asked about: 403 unless the caller is an admin
PostCollaborator(caller, userId, role) ==
  /\ ~acc.called
  /\ acc' = IF hasAccess(acc.page, caller, "admin")
            THEN [acc EXCEPT !.page = addCollaborator(@, userId, role)]
            ELSE acc
  /\ acc' # acc
  /\ UnchangedButAcc

\* DELETE /api/pages/:id/collaborators/:userId by caller
DeleteCollaborator(caller, userId) ==
  /\ ~acc.called
  /\ acc' = IF hasAccess(acc.page, caller, "admin")
            THEN [acc EXCEPT !.page = removeCollaborator(@, userId)]
            ELSE acc
  /\ acc' # acc
  /\ UnchangedButAcc

NextGrant ==
  \/ \E caller \in Users, u \in Users, r \in Roles : PostCollaborator(caller, u, r)
  \/ \E caller \in Users, u \in Users : DeleteCollaborator(caller, u)
  \/ CallHasAccess

SpecGrant == InitGrant /\ [][NextGrant]_vars

\* ------------------------------------- collaborator removal and the rooms
\* DELETE /api/pages/:id/collaborators/:userId by caller, on a stored document:
\* from the request to the save inside page.removeCollaborator
RestDeleteCollaboratorLoad(caller, pageId, userId) ==
  /\ CanStart /\ FreeSlots # {}
  /\ Started
  /\ LET page == FindById(pageId) IN
       IF pageId \notin Pages
       THEN /\ last' = Step("rest-collaborator-404", "none", pageId, "none") /\ UNCHANGED tasks
       ELSE IF ~hasAccess(page, caller, "admin")
       THEN /\ last' = Step("rest-collaborator-403", "none", pageId, "none") /\ UNCHANGED tasks
       ELSE /\ Suspend([kind |-> "rest-delete-collaborator", conn |-> "none",
                        pageId |-> pageId, action |-> userId,
                        version |-> NoVersion, loaded |-> page,
                        page |-> removeCollaborator(page, userId),
                        paths |-> {"collaborators"}])
            /\ last' = Step("rest-collaborator-load", "none", pageId, "none")
  /\ emitted' = << >>
  /\ UNCHANGED <<pages, currentPageId, rooms, status, activeUsers, writeLog, acc, socketUserId, ub>>

\* the save of removeCollaborator returns: the collaborators are written and
\* the route answers 200; when it rejects, the 500 response and no write
RestDeleteCollaboratorSave(s) ==
  LET t == tasks[s] IN
  /\ t.kind = "rest-delete-collaborator"
  /\ \/ /\ pages' = [pages EXCEPT ![t.pageId].collaborators = t.page.collaborators]
        /\ last' = Step("rest-collaborator-removed", "none", t.pageId, t.action)
     \/ /\ UNCHANGED pages
        /\ last' = Step("rest-collaborator-500", "none", t.pageId, t.action)
  /\ emitted' = << >>
  /\ Resume(s)
  /\ UNCHANGED <<currentPageId, rooms, status, activeUsers, writeLog, eventsLeft, acc,
                 socketUserId, ub>>

\* collaborator removals among joins, disconnects and update-blocks events
NextRevoke ==
  \/ \E u \in Users, p \in PageIds, v \in Users : RestDeleteCollaboratorLoad(u, p, v)
  \/ \E s \in Slots : RestDeleteCollaboratorSave(s)
  \/ \E c \in Conns, p \in EditPageIds, b \in BlockLists : UpdateBlocksLoad(c, p, b)
  \/ \E s \in Slots : UpdateBlocksSave(s)
  \/ \E c \in Conns, p \in PageIds : JoinPage(c, p)
  \/ \E s \in Slots : JoinPageLoad(s)
  \/ \E s \in Slots : JoinPageFails(s)
  \/ \E c \in Conns : Disconnect(c)

SpecRevoke == InitSocket /\ [][NextRevoke]_vars

\* --------------------------- update-blocks and PUT /:id/blocks side by side
\* the request bodies: a block list, whose blocks carry a content object or lack it
BlocksBodies == [blocks : BlockLists, hasContent : BOOLEAN]

\* updateBlocksSchema.validate(req.body): blockSchema asks for content
updateBlocksSchemaAccepts(body) == body.hasContent

\* the handler's copy written by a page.save() that succeeds
SavedBlocksUpdate(page, blocks) ==
  SavedDoc(page, [IdleTask EXCEPT !.loaded = page, !.page = ApplyBlocks(page, blocks),
                                  !.paths = {"history", "blocks", "version"}])

\* the stored document after the update-blocks handler: no request validation;
\* the block schema of the model gives a missing content its default
SocketUpdateBlocks(page, userId, body) ==
  IF ~hasAccess(page, userId, EditRole) THEN page
  ELSE SavedBlocksUpdate(page, body.blocks)

\* a PUT /:id/blocks that asks for viewer access only
RestPutBlocksViewer(page, userId, body) ==
  IF ~updateBlocksSchemaAccepts(body) THEN page
  ELSE IF ~hasAccess(page, userId, "viewer") THEN page
  ELSE SavedBlocksUpdate(page, body.blocks)

\* the stored document after PUT /:id/blocks: validateRequest answers 400
\* before the route runs, the route answers 403 below editor
RestPutBlocks(page, userId, body) ==
  IF ~updateBlocksSchemaAccepts(body) THEN page
  ELSE IF ~hasAccess(page, userId, "editor") THEN page
  ELSE SavedBlocksUpdate(page, body.blocks)

\* the documents the two are started from: p1 after 0 .. HistoryLimit + 1 edits
EquivSeeds == 0..(HistoryLimit + 1)

InitEquiv ==
  /\ InitCommon
  /\ pages = [p \in Pages |-> IF p = "p1" THEN Page1 ELSE Page2]
  /\ ub = [initial |-> DefaultVersion, n |-> 0, stale |-> FALSE]
  /\ socketUserId = OneEach
  /\ eventsLeft = 0
  /\ \E k \in EquivSeeds, u \in AllUsers, body \in BlocksBodies :
       acc = [called |-> FALSE, page |-> Edited(Page1, k), userId |-> u,
              requiredRole |-> EditRole, result |-> FALSE, body |-> body,
              ranSocket |-> FALSE, viaSocket |-> NoDoc,
              ranRest |-> FALSE, viaRest |-> NoDoc]

\* the update-blocks event is handled on a store holding acc.page
RunSocketUpdateBlocks ==
  /\ ~acc.ranSocket
  /\ acc' = [acc EXCEPT !.ranSocket = TRUE,
                        !.viaSocket = SocketUpdateBlocks(acc.page, acc.userId, acc.body)]
  /\ UnchangedButAcc

\* the PUT /:id/blocks request is handled on a store holding acc.page
RunRestPutBlocks ==
  /\ ~acc.ranRest
  /\ acc' = [acc EXCEPT !.ranRest = TRUE,
                        !.viaRest = RestPutBlocks(acc.page, acc.userId, acc.body)]
  /\ UnchangedButAcc

NextEquiv == RunSocketUpdateBlocks \/ RunRestPutBlocks

SpecEquiv == InitEquiv /\ [][NextEquiv]_vars

\* =============================================================== claims
\* the last save logged for page p
LastWrite(p) == writeLog[p][Len(writeLog[p])]

\* C1: in every reachable state, after any interleaving of update-blocks,
\* PUT /:id, PUT /:id/blocks and undo-redo, the stored history of every
\* document holds at most 10 entries.
C1_HistoryAtMostTen == \A p \in Pages : Len(pages[p].history) <= HistoryLimit

\* a blocks update was saved on a full history and evicted the entry of version 1
C1_Witness ==
  /\ last.op \in {"update-blocks-saved", "rest-saved"}
  /\ Len(pages["p1"].history) = HistoryLimit
  /\ pages["p1"].history[1].version > DefaultVersion

C3_UndoRestoresBlocksBeforeUpdate ==
  \A p \in Pages :
    LET w == writeLog[p] IN
    (/\ Len(w) = 2
     /\ w[1].op = "update-blocks" /\ w[1].fresh
     /\ w[2].op = "undo" /\ w[2].fresh)
    => pages[p].blocks = w[1].blocks

\* C4: a redo whose handler runs right after an undo, with no save in between,
\* leaves the document with the blocks and the version it had before the undo.
C4_RedoRestoresStateBeforeUndo ==
  \A p \in Pages :
    LET w == writeLog[p] IN
    /\ (/\ last.op = "undo-redo-noop" /\ last.action = "redo" /\ last.pageId = p
        /\ Len(w) >= 1 /\ LastWrite(p).op = "undo" /\ LastWrite(p).fresh)
       => (pages[p].blocks = LastWrite(p).blocks /\ pages[p].version = LastWrite(p).version)
    /\ (/\ last.op = "undo-redo-saved" /\ last.action = "redo" /\ last.pageId = p
        /\ Len(w) = 2 /\ w[1].op = "undo" /\ w[1].fresh /\ w[2].op = "redo" /\ w[2].fresh)
       => (pages[p].blocks = w[1].blocks /\ pages[p].version = w[1].version)

\* the target version of an undo-redo payload on a document, by the rule of
\* the navigation: undo is one below, redo one above, else the version given
NavigationTarget(page, action, version) ==
  CASE action = "undo" -> page.version - 1
    [] action = "redo" -> page.version + 1
    [] OTHER -> version

HasEntry(history, target) == \E i \in 1..Len(history) : history[i].version = target

\* C5: the save of an undo-redo that found its target sets the stored blocks
\* to the snapshot of an entry of the target version and the stored version to
\* the target version, and leaves the stored history as it was.
C5_UndoRedoSetsBlocksAndVersionOnly ==
  [][\A s \in Slots :
       (tasks[s].kind = "undo-redo" /\ tasks'[s].kind = "idle" /\ last'.op = "undo-redo-saved")
       => LET t == tasks[s]
              p == t.pageId
              target == NavigationTarget(t.loaded, t.action, t.version)
          IN /\ \E i \in 1..Len(t.loaded.history) :
                  /\ t.loaded.history[i].version = target
                  /\ pages'[p].blocks = t.loaded.history[i].blocks
             /\ pages'[p].version = target
             /\ pages'[p].history = pages[p].history
             /\ pages'[p].title = pages[p].title]_vars

\* an undo or redo was saved while the stored history had changed since its load
C5_Witness ==
  /\ last.op = "undo-redo-saved"
  /\ Len(writeLog["p1"]) >= 1 /\ LastWrite("p1").op \in Actions /\ ~LastWrite("p1").fresh
  /\ pages["p1"].blocks # LastWrite("p1").blocks

\* C6: an accepted undo-redo event suspends for a save exactly when the loaded
\* history holds an entry of its target version; when it holds none the handler
\* ends at once, the stored documents are unchanged and nothing is emitted, no
\* error either.  history-navigated is emitted by the step that saves an
\* undo-redo and by no other step.
C6_NoEntryNoEffect ==
  [][/\ last'.op \in {"undo-redo-noop", "undo-redo-load"}
        => LET p == last'.pageId
               found == HasEntry(pages[p].history,
                                 NavigationTarget(pages[p], last'.action, last'.version))
           IN /\ found <=> last'.op = "undo-redo-load"
              /\ found <=> tasks' # tasks
              /\ pages' = pages
              /\ emitted' = << >>
     /\ (\E i \in 1..Len(emitted') : emitted'[i].ev = "history-navigated")
        <=> last'.op = "undo-redo-saved"
     /\ last'.op = "undo-redo-saved"
        => \E s \in Slots :
             /\ tasks[s].kind = "undo-redo" /\ tasks'[s].kind = "idle"
             /\ HasEntry(tasks[s].loaded.history,
                         NavigationTarget(tasks[s].loaded, tasks[s].action, tasks[s].version))]_vars

\* a redo found no entry in a history that is not empty
C6_Witness ==
  /\ last.op = "undo-redo-noop" /\ last.action = "redo"
  /\ Len(pages["p1"].history) > 0
  /\ emitted = << >>

\* C7: in every reachable state each connection is subscribed to at most one
\* document room.
C7_AtMostOneRoom == \A c \in Conns : Cardinality(rooms[c]) <= 1

\* a connection bound to one room has just joined another
C7_Witness ==
  /\ last.op = "join-page-done"
  /\ last.prev \notin {NoPage, last.pageId}
  /\ rooms[last.conn] = {last.pageId}

\* C8: when a connection bound to room A joins room B, the step emits a
\* user-left notice to room A and after it a user-joined notice to room B.
C8_UserLeftThenUserJoined ==
  (last.op = "join-page-done" /\ last.prev \notin {NoPage, last.pageId})
  => \E i, j \in 1..Len(emitted) :
       /\ i < j
       /\ emitted[i].ev = "user-left" /\ emitted[i].room = last.prev
       /\ emitted[j].ev = "user-joined" /\ emitted[j].room = last.pageId

\* the users with exactly one connection
SingleConnectionUsers ==
  {u \in Users : Cardinality({c \in Conns : socketUserId[c] = u}) = 1}

\* the pages whose presence list holds user u
PresentIn(u) == {p \in DOMAIN activeUsers : u \in activeUsers[p]}

\* C9: a user with a single connection is never listed in the presence lists
\* of two documents at once.
C9_SingleConnectionInOneList ==
  \A u \in SingleConnectionUsers : Cardinality(PresentIn(u)) <= 1

\* a user with a single connection has switched rooms and is listed in the new one only
C9_Witness ==
  /\ last.op = "join-page-done"
  /\ last.prev \notin {NoPage, last.pageId}
  /\ socketUserId[last.conn] \in SingleConnectionUsers
  /\ PresentIn(socketUserId[last.conn]) = {last.pageId}

\* C10: hasAccess returns true whenever the user is the document's owner, for
\* every required role and every collaborator list.
C10_OwnerAlwaysPasses ==
  (acc.called /\ acc.userId = acc.page.owner) => acc.result

\* the owner, listed as a viewer among the collaborators, passes for admin
C10_Witness ==
  /\ acc.called /\ acc.userId = acc.page.owner /\ acc.requiredRole = "admin"
  /\ \E i \in 1..Len(acc.page.collaborators) :
       /\ acc.page.collaborators[i].user = acc.userId
       /\ acc.page.collaborators[i].role = "viewer"
  /\ acc.result

\* some collaborator entry of the user has a rank that reaches the required one
EntryRankAtLeast(page, userId, requiredRole) ==
  \E i \in 1..Len(page.collaborators) :
    /\ page.collaborators[i].user = userId
    /\ roleHierarchy[page.collaborators[i].role] >= roleHierarchy[requiredRole]

DeniedOps == {"update-blocks-denied", "undo-redo-denied", "update-page-settings-denied",
              "update-page-title-denied"}
MutatingKinds == {"update-blocks", "undo-redo", "update-page-settings", "update-page-title"}

\* the user owns the document or holds an editor or admin grant on it
EditorGrant(page, userId) ==
  \/ page.owner = userId
  \/ \E i \in 1..Len(page.collaborators) :
       page.collaborators[i].user = userId /\ page.collaborators[i].role \in {"editor", "admin"}

\* C12: a mutating socket event (update-blocks, update-page-settings,
\* update-page-title, undo-redo) of a user without editor access to the target
\* document is refused: the step changes no stored document and starts no save,
\* it emits one error event to the sending connection and nothing else; a
\* handler goes on to a save, or an undo-redo to its silent end, only for a user
\* with editor access, and is refused only for a user without.
C12_NoEditorAccessRejected ==
  [][/\ last'.op \in DeniedOps
        => /\ pages' = pages /\ tasks' = tasks
           /\ Len(emitted') = 1
           /\ emitted'[1].ev = "error"
           /\ emitted'[1].to = {emitted'[1].from}
           /\ ~(/\ last'.pageId \in Pages
                /\ EditorGrant(pages[last'.pageId], socketUserId[emitted'[1].from]))
     /\ \A s \in Slots :
          (tasks[s].kind = "idle" /\ tasks'[s].kind \in MutatingKinds)
          => /\ tasks'[s].pageId \in Pages
             /\ EditorGrant(pages[tasks'[s].pageId], socketUserId[tasks'[s].conn])
     /\ last'.op = "undo-redo-noop"
        => /\ last'.pageId \in Pages
           /\ EditorGrant(pages[last'.pageId], socketUserId[last'.conn])]_vars

\* the viewer u3 sent update-page-settings for p1 while others were in its room
C12_Witness ==
  /\ last.op = "update-page-settings-denied" /\ last.pageId = "p1"
  /\ Len(emitted) = 1 /\ emitted[1].ev = "error" /\ emitted[1].to = {"c3"}
  /\ RoomOthers("c3", "p1") # {}
  /\ pages["p1"].settings = DefaultSettings

\* the events a handler sends with socket.to(room)
BroadcastEvents == {"blocks-updated", "user-joined", "user-left", "user-cursor",
                    "block-selected", "user-typing", "page-settings-updated",
                    "page-title-updated", "history-navigated"}

\* the connected connections subscribed to a room
Subscribers(room) == {d \in Conns : status[d] = "connected" /\ room \in rooms[d]}

\* C13: every broadcast event of a step reaches exactly the other connections
\* subscribed to its room, never the connection whose event caused it; a
\* blocks-updated carries the version the step persisted.
C13_BroadcastExcludesSender ==
  \A i \in 1..Len(emitted) :
    emitted[i].ev \in BroadcastEvents
    => /\ emitted[i].from \notin emitted[i].to
       /\ emitted[i].to = Subscribers(emitted[i].room) \ {emitted[i].from}
       /\ emitted[i].ev = "blocks-updated"
          => emitted[i].version = pages[emitted[i].room].version

\* the editor on c2, in the room of p1 with c1 and c3, had an update-blocks saved
C13_Witness ==
  /\ last.op = "update-blocks-saved"
  /\ Len(emitted) = 1 /\ emitted[1].ev = "blocks-updated"
  /\ emitted[1].from = "c2" /\ "p1" \in rooms["c2"]
  /\ emitted[1].to = {"c1", "c3"}
  /\ emitted[1].version = pages["p1"].version

\* C14: when page.save() fails in a mutating socket event, the step leaves
\* every stored document as it was (history, blocks, version, settings, title),
\* emits no broadcast, and emits one error event to the sender alone; the
\* handler is over, so nothing of the event is written or broadcast later.
C14_FailedSaveChangesNothing ==
  [][last'.op = "save-failed"
     => \E s \in Slots :
          /\ tasks[s].kind \in MutatingKinds /\ tasks'[s].kind = "idle"
          /\ \A r \in Slots \ {s} : tasks'[r] = tasks[r]
          /\ pages' = pages
          /\ Len(emitted') = 1
          /\ emitted'[1].ev = "error"
          /\ emitted'[1].from = tasks[s].conn
          /\ emitted'[1].to = {tasks[s].conn}]_vars

\* the save of an undo failed while others were in the room: p1 is as it was
C14_Witness ==
  /\ last.op = "save-failed" /\ last.action = "undo" /\ last.pageId = "p1"
  /\ pages["p1"] = Edited(Page1, 1)
  /\ Len(emitted) = 1 /\ emitted[1].ev = "error"
  /\ RoomOthers(emitted[1].from, "p1") # {}

\* the handlers still suspended for connection c
InFlightOf(c) == {s \in Slots : tasks[s].kind # "idle" /\ tasks[s].conn = c}

\* C15: once a connection's disconnect has been handled and no handler of the
\* connection is in flight any more, the connection is subscribed to no room
\* and its user (who has no other connection) is in no presence list.
C15_DisconnectLeavesNothing ==
  \A c \in Conns :
    (status[c] = "disconnected" /\ InFlightOf(c) = {})
    => /\ rooms[c] = {}
       /\ socketUserId[c] \in SingleConnectionUsers => PresentIn(socketUserId[c]) = {}

\* C16: the events of one connection are handled one at a time, each to its
\* end before the next begins: a connection never has two handlers in flight,
\* the second having loaded its document before the first has saved.
C16_SameConnectionOneAtATime ==
  \A c \in Conns : Cardinality(InFlightOf(c)) <= 1

\* two update-blocks of different connections were saved, the first over the
\* document it loaded, the second over a document changed since its load
Overlapped ==
  LET w == writeLog["p1"] IN
  /\ last.op = "update-blocks-saved" /\ ub.n = 2
  /\ Len(w) = 2
  /\ w[1].op = "update-blocks" /\ w[1].fresh
  /\ w[2].op = "update-blocks" /\ ~w[2].fresh
  /\ w[1].conn # w[2].conn

BadTokens == Tokens \ {"valid-token"}

\* connection c has taken no part in anything: no user id, no room, no
\* binding, no handler in flight, and no event of the last step is from it or to it
TookNoPart(c) ==
  /\ socketUserId[c] = "none"
  /\ rooms[c] = {} /\ currentPageId[c] = NoPage
  /\ InFlightOf(c) = {}
  /\ \A i \in 1..Len(emitted) : emitted[i].from # c /\ c \notin emitted[i].to
  /\ last.op \notin {"handshake-accepted", "handshake-rejected"} => last.conn # c

\* C18: a connection whose handshake carries no token, an invalid token, or
\* the token of a missing or inactive user is rejected and stays rejected; no
\* event of it is ever handled: it has no handler in flight, joins no room,
\* binds to no page and nothing is emitted for it or to it, so every change of a
\* document, a room or a presence list is the work of an admitted connection.
C18_RejectedHandshakeDoesNothing ==
  [][/\ \A c \in Conns :
          /\ status[c] \in BadTokens => status'[c] \in {status[c], "rejected"}
          /\ status[c] = "rejected" => status'[c] = "rejected"
          /\ status'[c] \in BadTokens \cup {"rejected"} => TookNoPart(c)'
     /\ (pages' # pages \/ rooms' # rooms \/ activeUsers' # activeUsers)
        => \E c \in Conns :
             /\ status[c] \in {"connected", "disconnected"}
             /\ \/ last'.conn = c
                \/ \E s \in InFlightOf(c) : tasks'[s].kind = "idle"]_vars

\* c1 was rejected, and an admitted connection has joined a room since
C18_Witness ==
  /\ status["c1"] = "rejected"
  /\ last.op = "join-page-done"
  /\ activeUsers # NoPresence

\* C19: every error event of a step goes to one connection, the one whose
\* event failed, and to no room; a step of a handler that ends in an error
\* emits nothing else.
C19_ErrorsToSenderOnly ==
  \A i \in 1..Len(emitted) :
    emitted[i].ev = "error"
    => /\ emitted[i].to = {emitted[i].from}
       /\ emitted[i].room = NoPage
       /\ last.conn # "none" => emitted[i].from = last.conn
       /\ Len(emitted) = 1

\* the join-page of c1 failed while other connections were in the room of p1
C19_Witness ==
  /\ last.op = "join-page-failed" /\ last.conn = "c1" /\ last.pageId = "p1"
  /\ Len(emitted) = 1 /\ emitted[1].ev = "error" /\ emitted[1].to = {"c1"}
  /\ Subscribers("p1") \ {"c1"} # {}

\* the users whose connection is bound to page p
JoinedUsers(p) == {socketUserId[c] : c \in {d \in Conns : currentPageId[d] = p}}

\* every connection is of a user of its own, and none has disconnected
DistinctAndPresent ==
  /\ \A c, d \in Conns : c # d => socketUserId[c] # socketUserId[d]
  /\ \A c \in Conns : status[c] = "connected"

\* C20: while the connections are of distinct users and none has left, the
\* presence list of every document holds exactly the users whose connection
\* has joined it, each once, whatever the order of the joins; the list of a
\* document nobody has joined is empty, and the list sent to a joining
\* connection is that list.
C20_PresenceIsTheJoinedUsers ==
  DistinctAndPresent
  => /\ \A p \in PageIds : getActiveUsersForPage(activeUsers, p) = JoinedUsers(p)
     /\ last.op = "join-page-done"
        => emitted[Len(emitted)].users = JoinedUsers(last.pageId)

\* u1 joined p1 after u2: both are listed for p1, nobody for p2
C20_Witness ==
  /\ DistinctAndPresent
  /\ last.op = "join-page-done" /\ last.conn = "c1" /\ last.pageId = "p1"
  /\ getActiveUsersForPage(activeUsers, "p1") = {"u1", "u2"}
  /\ getActiveUsersForPage(activeUsers, "p2") = {}
  /\ emitted[Len(emitted)].users = {"u1", "u2"}

\* the users listed as present for page p
ListedFor(p) == {u \in Users : p \in PresentIn(u)}

\* C21: a successful join-page emits a user-joined notice to the other
\* connections subscribed to the room, not to the joiner, and then an
\* active-users event to the joiner alone, holding the presence list of the
\* document as it is after the join, the joiner's user included.
C21_JoinerGetsListOthersGetNotice ==
  last.op = "join-page-done"
  => /\ Len(emitted) = 2
     /\ emitted[1].ev = "user-joined" /\ emitted[1].room = last.pageId
     /\ emitted[1].to = Subscribers(last.pageId) \ {last.conn}
     /\ emitted[2].ev = "active-users"
     /\ emitted[2].to = {last.conn}
     /\ emitted[2].users = ListedFor(last.pageId)
     /\ socketUserId[last.conn] \in emitted[2].users

\* the editor on c2 joined p1 where the owner on c1 and the viewer on c3 were
C21_Witness ==
  /\ last.op = "join-page-done" /\ last.conn = "c2" /\ last.pageId = "p1"
  /\ socketUserId = OneEach
  /\ emitted[1].to = {"c1", "c3"}
  /\ emitted[2].users = {"u1", "u2", "u3"}

\* C22: an accepted update-page-settings or update-page-title goes through the
\* version-log step: once it is saved the document's version is above the one
\* it started with and its history has gained an entry.
C22_SettingsAndTitleAreVersioned ==
  (last.op \in {"update-page-settings-saved", "update-page-title-saved"} /\ last.pageId = "p1")
  => /\ pages["p1"].version > ub.initial
     /\ Len(pages["p1"].history) > Len(Edited(Page1, 1).history)

\* the handlers that replace the blocks: update-blocks and the two PUT routes
BlocksKinds == {"update-blocks", "rest-blocks", "rest-put"}

\* C23: the save of an accepted update-blocks or REST blocks update, whose
\* handler loaded the document at version v with blocks B, stores a history
\* whose newest entry is (v, B), the blocks the request sent and version v + 1;
\* when nothing was saved since the load, (v, B) is the stored state the save
\* replaces.
C23_NewestEntryIsPreMutationState ==
  [][\A s \in Slots :
       (/\ tasks[s].kind \in BlocksKinds /\ tasks'[s].kind = "idle"
        /\ "blocks" \in tasks[s].paths
        /\ last'.op \in {"update-blocks-saved", "rest-saved"})
       => LET t == tasks[s]
              h == pages'[t.pageId].history
          IN /\ Len(h) >= 1
             /\ h[Len(h)] = [version |-> t.loaded.version, blocks |-> t.loaded.blocks]
             /\ pages'[t.pageId].version = t.loaded.version + 1
             /\ pages'[t.pageId].blocks = t.page.blocks
             /\ t.loaded = pages[t.pageId]
                => h[Len(h)] = [version |-> pages[t.pageId].version,
                                blocks |-> pages[t.pageId].blocks]]_vars

\* a PUT /:id/blocks was saved over the document it loaded: the newest entry
\* is the state before it, and the blocks have changed
C23_Witness ==
  LET h == pages["p1"].history IN
  /\ last.op = "rest-saved" /\ last.action = "rest-blocks"
  /\ Len(writeLog["p1"]) >= 1 /\ LastWrite("p1").fresh
  /\ h[Len(h)] = [version |-> LastWrite("p1").version, blocks |-> LastWrite("p1").blocks]
  /\ pages["p1"].blocks # LastWrite("p1").blocks
  /\ pages["p1"].version = LastWrite("p1").version + 1

\* C24: when the save of a blocks update was made from a document loaded with
\* a full history, the stored history is the loaded one without its oldest
\* entry, in the same order, followed by the new entry.
C24_EvictionDropsOldestOnly ==
  [][\A s \in Slots :
       (/\ tasks[s].kind \in BlocksKinds /\ tasks'[s].kind = "idle"
        /\ "blocks" \in tasks[s].paths
        /\ last'.op \in {"update-blocks-saved", "rest-saved"}
        /\ Len(tasks[s].loaded.history) = HistoryLimit)
       => LET t == tasks[s]
              h == pages'[t.pageId].history
          IN /\ Len(h) = HistoryLimit
             /\ \A i \in 1..(HistoryLimit - 1) : h[i] = t.loaded.history[i + 1]
             /\ h[HistoryLimit] = [version |-> t.loaded.version, blocks |-> t.loaded.blocks]]_vars

\* a full history has lost its first entry: it starts at the second version
\* and ends with the state before the last update
C24_Witness ==
  LET h == pages["p1"].history IN
  /\ last.op = "update-blocks-saved" /\ last.pageId = "p1"
  /\ Len(h) = HistoryLimit
  /\ h[1].version = DefaultVersion + 1
  /\ h[HistoryLimit].version = DefaultVersion + HistoryLimit
  /\ pages["p1"].version = DefaultVersion + HistoryLimit + 1

\* the ends of a join-page handler that did not join
FailedJoinOps == {"join-page-denied", "join-page-failed"}

\* C25: the step that ends a join-page handler without joining (document not
\* found, access below viewer, or the load rejected) leaves every binding,
\* every room subscription, the presence registry and the documents as they
\* were, and emits one error event, to the sender alone and to no room.
C25_FailedJoinChangesNothing ==
  [][\A s \in Slots :
       (/\ tasks[s].kind = "join-page" /\ tasks'[s].kind = "idle"
        /\ last'.op \in FailedJoinOps)
       => /\ currentPageId' = currentPageId
          /\ rooms' = rooms
          /\ activeUsers' = activeUsers
          /\ pages' = pages
          /\ Len(emitted') = 1
          /\ emitted'[1].ev = "error"
          /\ emitted'[1].to = {tasks[s].conn}
          /\ emitted'[1].room = NoPage]_vars

\* a connection bound to a document was refused another one: it is still
\* bound to the first, subscribed to its room and listed there, and got the error
C25_Witness ==
  /\ last.op = "join-page-denied"
  /\ last.pageId \in Pages
  /\ last.prev \in Pages /\ last.prev # last.pageId
  /\ currentPageId[last.conn] = last.prev
  /\ rooms[last.conn] = {last.prev}
  /\ PresentIn(socketUserId[last.conn]) = {last.prev}
  /\ emitted = <<ErrorTo(last.conn)>>

\* the registry au lists user u for document p
Listed(au, p, u) == p \in DOMAIN au /\ u \in au[p]

\* C26: the disconnect of a connection with no handler in flight: when it is
\* bound to a document, its user is no longer listed for that document, the
\* lists of the other documents are untouched and one user-left notice goes to
\* exactly the other connected subscribers of that room; when it is unbound,
\* the registry is unchanged and nothing is emitted.
C26_DisconnectCleansUpAndNotifies ==
  [][\A c \in Conns :
       (status[c] = "connected" /\ status'[c] = "disconnected" /\ InFlightOf(c) = {})
       => LET p == currentPageId[c]
              u == socketUserId[c]
          IN IF p # NoPage
             THEN /\ ~Listed(activeUsers', p, u)
                  /\ \A q \in Pages \ {p}, v \in Users :
                       Listed(activeUsers', q, v) <=> Listed(activeUsers, q, v)
                  /\ \A v \in Users \ {u} :
                       Listed(activeUsers', p, v) <=> Listed(activeUsers, p, v)
                  /\ Len(emitted') = 1
                  /\ emitted'[1].ev = "user-left"
                  /\ emitted'[1].room = p
                  /\ emitted'[1].to =
                       {d \in Conns \ {c} : status[d] = "connected" /\ p \in rooms[d]}
             ELSE /\ activeUsers' = activeUsers
                  /\ emitted' = << >>]_vars

\* a bound connection has disconnected with nothing in flight: another
\* connection of the room got the notice and the user is off the list
C26_Witness ==
  /\ last.op = "disconnect" /\ last.prev \in Pages
  /\ \A s \in Slots : tasks[s].kind = "idle"
  /\ Len(emitted) = 1 /\ emitted[1].ev = "user-left"
  /\ emitted[1].to # {}
  /\ ~Listed(activeUsers, last.prev, socketUserId[last.conn])
  /\ last.prev \in DOMAIN activeUsers

\* C27: every document key of the presence registry maps to at least one user.
C27_NoEmptyPresenceMap == \A p \in DOMAIN activeUsers : activeUsers[p] # {}

\* the only user listed for a document has left it, by a disconnect or by
\* joining another document: the document's key is gone from the registry
C27_Witness ==
  /\ last.op \in {"disconnect", "join-page-done"}
  /\ last.prev \in Pages /\ last.prev # last.pageId
  /\ last.prev \notin DOMAIN activeUsers
  /\ \A c \in Conns : currentPageId[c] = last.prev => c = last.conn

\* C28: the step of a cursor-move, block-select, typing-start or typing-stop
\* event changes no document, no presence list, no binding and no room
\* subscription; from a bound connection its one message goes to exactly the
\* other connected subscribers of the connection's current room, and from an
\* unbound connection nothing is emitted.
C28_EphemeralEventsOnlyRelay ==
  [][(eventsLeft' # eventsLeft /\ last'.op \in EphemeralEvents)
       => LET c == last'.conn
              p == currentPageId[c]
          IN /\ pages' = pages /\ writeLog' = writeLog
             /\ activeUsers' = activeUsers
             /\ currentPageId' = currentPageId
             /\ rooms' = rooms
             /\ tasks' = tasks
             /\ IF p # NoPage
                THEN /\ Len(emitted') = 1
                     /\ emitted'[1].ev = last'.op
                     /\ emitted'[1].room = p
                     /\ emitted'[1].to =
                          {d \in Conns \ {c} : status[d] = "connected" /\ p \in rooms[d]}
                ELSE emitted' = << >>]_vars

\* a bound connection's ephemeral event reached another member of its room
\* while a connection bound to the other document got nothing
C28_Witness ==
  /\ last.op \in EphemeralEvents /\ last.pageId \in Pages
  /\ Len(emitted) = 1
  /\ emitted[1].to # {}
  /\ \E d \in Conns : /\ status[d] = "connected"
                       /\ currentPageId[d] \in Pages \ {last.pageId}
                       /\ d \notin emitted[1].to

\* C29: every step that changes a stored document is the save of a mutating
\* socket event sent for that document by a connection whose user owns it or
\* holds an editor or admin grant on it; the document p2, on which no
\* connection's user has such a grant, stays as it was created.
C29_OnlyEditorsChangeDocuments ==
  [][/\ \A p \in Pages :
          pages'[p] # pages[p]
          => \E s \in Slots :
               /\ tasks[s].kind \in MutatingKinds /\ tasks'[s].kind = "idle"
               /\ tasks[s].pageId = p
               /\ EditorGrant(pages[p], socketUserId[tasks[s].conn])
     /\ pages'["p2"] = Page2]_vars

\* the viewer u3 was refused an update-blocks for p1 while an editor's handler
\* was waiting for its save: both documents are as they started
C29_Witness ==
  /\ last.op = "update-blocks-denied" /\ last.pageId = "p1"
  /\ Len(emitted) = 1 /\ emitted[1].from = "c3"
  /\ \E s \in Slots : tasks[s].kind \in MutatingKinds /\ tasks[s].pageId = "p1"
  /\ pages["p1"] = Edited(Page1, 1)
  /\ pages["p2"] = Page2

\* C30: a user is listed as present for a document for as long as some live
\* connection of the user is bound to it, whatever the user's other
\* connections do.
C30_ListedWhileSomeConnectionBound ==
  \A c \in Conns :
    (status[c] = "connected" /\ currentPageId[c] \in Pages)
    => Listed(activeUsers, currentPageId[c], socketUserId[c])

\* C31: no two entries of a stored document's history carry the same version.
C31_HistoryVersionsDistinct ==
  \A p \in Pages :
    \A i, j \in 1..Len(pages[p].history) :
      i # j => pages[p].history[i].version # pages[p].history[j].version

\* C32: a broadcast of a document reaches only connections whose users have at
\* least viewer access to the document as stored when it is sent, and every
\* connected subscriber of a document's room has that access.
C32_RoomMembersHaveViewerAccess ==
  /\ \A i \in 1..Len(emitted) :
       (emitted[i].ev \in BroadcastEvents /\ emitted[i].room \in Pages)
       => \A d \in emitted[i].to :
            hasAccess(pages[emitted[i].room], socketUserId[d], "viewer")
  /\ (\A s \in Slots : tasks[s].kind # "join-page")
     => \A c \in Conns, p \in Pages :
          (status[c] = "connected" /\ p \in rooms[c])
          => hasAccess(pages[p], socketUserId[c], "viewer")

\* both handlers have run from the same document, user and body
BothRan == acc.ranSocket /\ acc.ranRest

SavedEventOps == {"update-blocks-saved", "undo-redo-saved", "update-page-settings-saved",
                  "update-page-title-saved"}

\* C34: a mutating event that was saved and broadcast named the document its
\* sending connection is bound to.
C34_MutationsOnlyOnBoundDocument ==
  (last.op \in SavedEventOps /\ Len(emitted) = 1)
  => currentPageId[emitted[1].from] = last.pageId

\* C35: the save of an accepted update-page-settings stores, and broadcasts to
\* the room, settings in which every key of the payload has the payload's
\* value and every other key the value the handler loaded (the stored value,
\* when nothing was saved since the load); blocks, title, collaborators,
\* version and history stay as stored.
C35_SettingsAreMerged ==
  [][\A s \in Slots :
       (/\ tasks[s].kind = "update-page-settings" /\ tasks'[s].kind = "idle"
        /\ last'.op = "update-page-settings-saved")
       => LET t == tasks[s]
              old == pages[t.pageId]
              new == pages'[t.pageId]
          IN /\ \A k \in SettingsKeys :
                  new.settings[k] = IF k \in DOMAIN t.settings THEN t.settings[k]
                                    ELSE t.loaded.settings[k]
             /\ t.loaded = old
                => \A k \in SettingsKeys \ DOMAIN t.settings : new.settings[k] = old.settings[k]
             /\ new.blocks = old.blocks /\ new.title = old.title
             /\ new.collaborators = old.collaborators /\ new.owner = old.owner
             /\ new.version = old.version /\ new.history = old.history
             /\ Len(emitted') = 1
             /\ emitted'[1].ev = "page-settings-updated"
             /\ emitted'[1].room = t.pageId
             /\ emitted'[1].settings = new.settings]_vars

\* a second update-page-settings with another key was saved: both keys hold
\* their payloads' values and the room got the merged object
C35_Witness ==
  /\ last.op = "update-page-settings-saved" /\ last.pageId = "p1"
  /\ pages["p1"].settings = [theme |-> "dark", metaTitle |-> "m1"]
  /\ Len(emitted) = 1 /\ emitted[1].settings = pages["p1"].settings
  /\ emitted[1].to # {}
  /\ pages["p1"].blocks = Edited(Page1, 1).blocks
  /\ pages["p1"].title = Page1.title

====
